---- MODULE Spec2Model ----
(***************************************************************************)
(* The per-registrant health checker of svc.orchestrator/registry          *)
(* (health_checker.go): one goroutine per registrant that waits on its     *)
(* quit channel and its ticker, probes the registrant through the retrier, *)
(* forwards the returned stats to the metrics aggregator and reports its   *)
(* own termination on the shared done channel.                             *)
(*                                                                         *)
(* Metric values are kept in tenths (0.5 is 5, 4 is 40) so that they stay  *)
(* integers.  Time is abstracted: a tick may arrive whenever the ticker    *)
(* runs, and the retrier's backoff sleeps take no step of their own.       *)
(***************************************************************************)
EXTENDS Integers, Sequences, FiniteSets

\* ---------------------------------------------------------------- bounds
MaxCycles == 2      \* probe cycles one checker may start
MaxStats == 2       \* Stats entries in one HeartbeatResponse
MaxStopCalls == 2   \* stopHealthCheck() calls made on one checker

\* ------------------------------------------------------------ data model
\* maxHeartBeatRetries is declared outside health_checker.go; the model takes
\* the smallest budget and the budget of the documented scenarios
Budgets == {1, 3}

SvcA == [ServiceName |-> "svc-a", ControlAddress |-> "10.0.0.1:7000"]
SvcB == [ServiceName |-> "svc-b", ControlAddress |-> "10.0.0.2:7000"]
Registrants == {SvcA, SvcB}

StatsA == [ServiceID |-> "svc-a", TS |-> 100, CPU |-> 5, Mem |-> 2,
           Threads |-> 40, NumGoroutines |-> 100]
StatsB == [ServiceID |-> "svc-b", TS |-> 200, CPU |-> 7, Mem |-> 3,
           Threads |-> 80, NumGoroutines |-> 120]
StatsPool == {StatsA, StatsB}

\* *clients.HeartbeatResponse: the nil pointer, or a response with its Stats
NilResponse == [nil |-> TRUE, Stats |-> <<>>]
Response(stats) == [nil |-> FALSE, Stats |-> stats]
Responses ==
    {Response(s) : s \in UNION {[1..n -> StatsPool] : n \in 0..MaxStats}}

\* error values: nil, what the heartbeat client may return, and the error
\* sendHeartBeat makes itself for a nil response
NoError == "nil"
ClientErrors == {"rpc unavailable", "rpc deadline exceeded"}
NilResponseError == "hearteat failed"

MetricIDs == <<"MetricCPU", "MetricMemory", "MetricThreads", "MetricNumGoroutine">>

\* the k-th (0..3) DataPoint sendHeartBeat builds from one Stats entry
DataPointAtMemFromCPU(stats, k) ==
    [MetricID |-> MetricIDs[k + 1], ServiceID |-> stats.ServiceID, TS |-> stats.TS,
     Value |-> CASE k = 0 -> stats.CPU
                 [] k = 1 -> stats.CPU
                 [] k = 2 -> stats.Threads
                 [] k = 3 -> stats.NumGoroutines]

DataPointAt(stats, k) ==
    [MetricID |-> MetricIDs[k + 1], ServiceID |-> stats.ServiceID, TS |-> stats.TS,
     Value |-> CASE k = 0 -> stats.CPU
                 [] k = 1 -> stats.Mem
                 [] k = 2 -> stats.Threads
                 [] k = 3 -> stats.NumGoroutines]

\* retrier.ExponentialBackoff(4, 500ms): a backoff list of four delays
BackoffLen == 4

\* ----------------------------------------------------------------- state
VARIABLES
    maxHeartBeatRetries, \* the package-level retry budget
    registrants,         \* the registrants the registry admits
    pc,                  \* where each checker's goroutine is
    retries,             \* startHealthCheck's local counter
    ticker,              \* r.ticker: "unset", "running" or "stopped"
    tickC,               \* r.ticker.C holds a tick (its buffer is one tick)
    quit,                \* stopHealthCheck() callers blocked sending on r.quit
    stopReturned,        \* stopHealthCheck() calls that have returned
    done,                \* the values sent on the done channel, in order
    aggregator,          \* the AddDataPoint calls the aggregator received
    resp,                \* sendHeartBeat's resp
    err,                 \* the error the last client call / sendHeartBeat returned
    callLog,             \* results of the client calls of the retrier run in progress
    fwd,                 \* AddDataPoint calls made so far in this sendHeartBeat
    sent,                \* the DataPoints this checker passed in this sendHeartBeat
    cycles,              \* outcome of each probe cycle: "pending", "ok", "fail"
    probed,              \* the heartbeat client has been called for this checker
    retried,             \* a client call of the retrier run in progress has failed
    consumer,            \* the registry goroutine that receives from done
    limits               \* how far a run is followed: cycles, stats, stops

\* what is fixed when the registry starts
config == <<maxHeartBeatRetries, registrants, limits>>

vars == <<maxHeartBeatRetries, registrants, pc, retries, ticker, tickC, quit,
          stopReturned, done, aggregator, resp, err, callLog, fwd, sent, cycles,
          probed, retried, consumer, limits>>

\* the goroutine's positions
\*   "none"    no checker was created for the registrant
\*   "start"   go r.startHealthCheck() was issued, the goroutine has not run
\*   "select"  blocked in the select on r.quit and r.ticker.C
\*   "run"     inside expRetrier.Run, before a client call
\*   "forward" in the loop over resp.Stats
\*   "ret_ok"  sendHeartBeat returned nil
\*   "ret_err" sendHeartBeat returned an error
\*   "defer"   the loop was left, the deferred function starts
\*   "send"    the ticker is stopped, blocked on r.done <- r.info
\*   "exited"  the goroutine is over
InLoop == {"select", "run", "forward", "ret_ok", "ret_err"}
Leaving == {"defer", "send", "exited"}

\* the receiver of the done channel: receiving, gone for good, or itself
\* blocked in stopHealthCheck() on the checker of registrant "on"
Receiving == [state |-> "receiving", on |-> SvcA]
Gone == [state |-> "gone", on |-> SvcA]
Stopping(c) == [state |-> "stopping", on |-> c]

InitState ==
    /\ pc = [c \in Registrants |-> "none"]
    /\ retries = [c \in Registrants |-> 0]
    /\ ticker = [c \in Registrants |-> "unset"]
    /\ tickC = [c \in Registrants |-> FALSE]
    /\ quit = [c \in Registrants |-> 0]
    /\ stopReturned = [c \in Registrants |-> 0]
    /\ done = <<>>
    /\ aggregator = <<>>
    /\ resp = [c \in Registrants |-> NilResponse]
    /\ err = [c \in Registrants |-> NoError]
    /\ callLog = [c \in Registrants |-> <<>>]
    /\ fwd = [c \in Registrants |-> 0]
    /\ sent = [c \in Registrants |-> <<>>]
    /\ cycles = [c \in Registrants |-> <<>>]
    /\ probed = [c \in Registrants |-> FALSE]
    /\ retried = [c \in Registrants |-> FALSE]
    /\ consumer = Receiving

Init ==
    /\ maxHeartBeatRetries \in Budgets
    /\ registrants = {SvcA}
    /\ limits = [cycles |-> MaxCycles, stats |-> MaxStats, stops |-> MaxStopCalls]
    /\ InitState

\* ------------------------------------------------------------ operations
\* the loop condition: for retries > 0
LoopCondProbeFirst(r) == IF r > 0 THEN "run" ELSE "defer"
LoopCond(r) == IF r > 0 THEN "select" ELSE "defer"

\* r.info, the value the deferred function sends on done
InfoOfFirst(c) == SvcA
Info(c) == c

\* case <-r.ticker.C: r.sendHeartBeat() is called and waited for
AfterTickAsync == "select"
AfterTick == "run"

\* sendHeartBeat after the loop over resp.Stats: return nil
ForwardReturnError == "ret_err"
ForwardReturn == "ret_ok"

\* case <-r.quit: return
AfterQuitNoDefer == "exited"
AfterQuitBreak == "select"
AfterQuitSkipStop == "send"
AfterQuit == "defer"

\* if err := r.sendHeartBeat(); err != nil { retries--; ...; return }
AfterFailureContinue(r) == [retries |-> r, pc |-> LoopCond(r)]
AfterFailureNoReturn(r) == [retries |-> r - 1, pc |-> LoopCond(r - 1)]
AfterFailure(r) == [retries |-> r - 1, pc |-> "defer"]

\* else { retries = maxHeartBeatRetries }, then the loop condition
AfterSuccessInverted(r) == [retries |-> r - 1, pc |-> "defer"]
AfterSuccess(r) ==
    [retries |-> maxHeartBeatRetries, pc |-> LoopCond(maxHeartBeatRetries)]

\* expRetrier.Run after a call that failed, with n calls made before it: the
\* retrier retries once per delay of its backoff list, then returns the error
RetrierGivesUpLate(n) == n > BackoffLen
RetrierNoRetry(n) == TRUE
RetrierGivesUp(n) == n >= BackoffLen

\* the error Run returns when it gives up: that of the call it just made
RunErrorFirst(log) == log[1]
RunError(log) == log[Len(log)]

\* if resp == nil { return fmt.Errorf(...) }
RespIsNilOrEmpty(r) == r.nil \/ r.Stats = <<>>
RespIsNilUnchecked(r) == FALSE
RespIsNil(r) == r.nil

newHealthChecker(c) ==
    /\ pc[c] = "none"
    /\ pc' = [pc EXCEPT ![c] = "start"]
    /\ UNCHANGED <<config, consumer, retried, retries, ticker, tickC, quit,
                   stopReturned, done, aggregator, resp, err, callLog, fwd, sent,
                   cycles, probed>>

startHealthCheck(c) ==
    /\ pc[c] = "start"
    /\ ticker' = [ticker EXCEPT ![c] = "running"]
    /\ retries' = [retries EXCEPT ![c] = maxHeartBeatRetries]
    /\ pc' = [pc EXCEPT ![c] = LoopCond(maxHeartBeatRetries)]
    /\ UNCHANGED <<config, consumer, retried, tickC, quit, stopReturned,
                   done, aggregator, resp, err, callLog, fwd, sent, cycles, probed>>

\* the runtime delivers a tick; a tick that finds the buffer full is dropped
Tick(c) ==
    /\ ticker[c] = "running"
    /\ ~tickC[c]
    /\ tickC' = [tickC EXCEPT ![c] = TRUE]
    /\ UNCHANGED <<config, consumer, retried, pc, retries, ticker, quit,
                   stopReturned, done, aggregator, resp, err, callLog, fwd, sent,
                   cycles, probed>>

\* a caller enters stopHealthCheck and blocks on r.quit <- struct{}{}
stopHealthCheck(c) ==
    /\ pc[c] # "none"
    /\ quit[c] + stopReturned[c] < limits.stops
    /\ quit' = [quit EXCEPT ![c] = @ + 1]
    /\ UNCHANGED <<config, consumer, retried, pc, retries, ticker, tickC,
                   stopReturned, done, aggregator, resp, err, callLog, fwd, sent,
                   cycles, probed>>

\* the senders blocked on r.quit one of which a receive releases: the done
\* consumer when it is one of them, any other caller when there is one
Released(c) ==
    {w \in {"consumer", "caller"} :
        IF w = "consumer" THEN consumer = Stopping(c)
        ELSE quit[c] > (IF consumer = Stopping(c) THEN 1 ELSE 0)}

\* select, case <-r.quit: one blocked sender is released, the loop returns
SelectQuit(c) ==
    /\ pc[c] = "select"
    /\ quit[c] > 0
    /\ quit' = [quit EXCEPT ![c] = @ - 1]
    /\ stopReturned' = [stopReturned EXCEPT ![c] = @ + 1]
    /\ pc' = [pc EXCEPT ![c] = AfterQuit]
    /\ \E w \in Released(c) :
          consumer' = IF w = "consumer" THEN Receiving ELSE consumer
    /\ UNCHANGED <<config, retried, retries, ticker, tickC, done,
                   aggregator, resp, err, callLog, fwd, sent, cycles, probed>>

\* select, case <-r.ticker.C: sendHeartBeat is entered
SelectTick(c) ==
    /\ pc[c] = "select"
    /\ tickC[c]
    /\ Len(cycles[c]) < limits.cycles
    /\ tickC' = [tickC EXCEPT ![c] = FALSE]
    /\ pc' = [pc EXCEPT ![c] = AfterTick]
    /\ retried' = [retried EXCEPT ![c] = FALSE]
    /\ resp' = [resp EXCEPT ![c] = NilResponse]
    /\ err' = [err EXCEPT ![c] = NoError]
    /\ callLog' = [callLog EXCEPT ![c] = <<>>]
    /\ fwd' = [fwd EXCEPT ![c] = 0]
    /\ sent' = [sent EXCEPT ![c] = <<>>]
    /\ cycles' = [cycles EXCEPT ![c] = Append(@, "pending")]
    /\ UNCHANGED <<config, consumer, retries, ticker, quit,
                   stopReturned, done, aggregator, probed>>

\* one r.client.Heartbeat call inside expRetrier.Run that returns an error
HeartbeatError(c) ==
    /\ pc[c] = "run"
    /\ \E e \in ClientErrors :
         LET log == Append(callLog[c], e) IN
         /\ callLog' = [callLog EXCEPT ![c] = log]
         /\ resp' = [resp EXCEPT ![c] = NilResponse]
         /\ IF RetrierGivesUp(Len(callLog[c]))
               THEN /\ err' = [err EXCEPT ![c] = RunError(log)]
                    /\ pc' = [pc EXCEPT ![c] = "ret_err"]
               ELSE /\ err' = [err EXCEPT ![c] = e]
                    /\ pc' = pc
    /\ probed' = [probed EXCEPT ![c] = TRUE]
    /\ retried' = [retried EXCEPT ![c] = TRUE]
    /\ UNCHANGED <<config, consumer, retries, ticker, tickC, quit,
                   stopReturned, done, aggregator, fwd, sent, cycles>>

\* one r.client.Heartbeat call that returns no error: Run returns nil, then
\* the nil check on resp
HeartbeatOK(c) ==
    /\ pc[c] = "run"
    /\ \E r \in {x \in Responses : Len(x.Stats) <= limits.stats} \cup {NilResponse} :
         /\ resp' = [resp EXCEPT ![c] = r]
         /\ callLog' = [callLog EXCEPT ![c] = <<>>]
         /\ IF RespIsNil(r)
               THEN /\ err' = [err EXCEPT ![c] = NilResponseError]
                    /\ pc' = [pc EXCEPT ![c] = "ret_err"]
               ELSE /\ err' = [err EXCEPT ![c] = NoError]
                    /\ pc' = [pc EXCEPT ![c] =
                                IF Len(r.Stats) = 0 THEN "ret_ok" ELSE "forward"]
    /\ probed' = [probed EXCEPT ![c] = TRUE]
    /\ UNCHANGED <<config, consumer, retried, retries, ticker, tickC, quit,
                   stopReturned, done, aggregator, fwd, sent, cycles>>

\* one r.aggregator.AddDataPoint call of the loop over resp.Stats
AddDataPoint(c) ==
    /\ pc[c] = "forward"
    /\ LET dp == DataPointAt(resp[c].Stats[(fwd[c] \div 4) + 1], fwd[c] % 4) IN
         /\ aggregator' = Append(aggregator, dp)
         /\ sent' = [sent EXCEPT ![c] = Append(@, dp)]
    /\ fwd' = [fwd EXCEPT ![c] = @ + 1]
    /\ pc' = [pc EXCEPT ![c] =
                IF fwd[c] + 1 = 4 * Len(resp[c].Stats) THEN ForwardReturn
                ELSE "forward"]
    /\ UNCHANGED <<config, consumer, retried, retries, ticker, tickC, quit,
                   stopReturned, done, resp, err, callLog, cycles, probed>>

\* the loop body after sendHeartBeat returned an error
HeartBeatFailed(c) ==
    /\ pc[c] = "ret_err"
    /\ retries' = [retries EXCEPT ![c] = AfterFailure(retries[c]).retries]
    /\ pc' = [pc EXCEPT ![c] = AfterFailure(retries[c]).pc]
    /\ callLog' = [callLog EXCEPT ![c] = <<>>]
    /\ cycles' = [cycles EXCEPT ![c][Len(cycles[c])] = "fail"]
    /\ retried' = [retried EXCEPT ![c] = FALSE]
    /\ UNCHANGED <<config, consumer, ticker, tickC, quit,
                   stopReturned, done, aggregator, resp, err, fwd, sent, probed>>

\* the loop body after sendHeartBeat returned nil
HeartBeatSucceeded(c) ==
    /\ pc[c] = "ret_ok"
    /\ retries' = [retries EXCEPT ![c] = AfterSuccess(retries[c]).retries]
    /\ pc' = [pc EXCEPT ![c] = AfterSuccess(retries[c]).pc]
    /\ cycles' = [cycles EXCEPT ![c][Len(cycles[c])] = "ok"]
    /\ retried' = [retried EXCEPT ![c] = FALSE]
    /\ UNCHANGED <<config, consumer, ticker, tickC, quit,
                   stopReturned, done, aggregator, resp, err, callLog, fwd, sent,
                   probed>>

\* the deferred function: r.ticker.Stop()
StopTicker(c) ==
    /\ pc[c] = "defer"
    /\ ticker' = [ticker EXCEPT ![c] = "stopped"]
    /\ pc' = [pc EXCEPT ![c] = "send"]
    /\ UNCHANGED <<config, consumer, retried, retries, tickC, quit,
                   stopReturned, done, aggregator, resp, err, callLog, fwd, sent,
                   cycles, probed>>

\* the deferred function: r.done <- r.info is received, the goroutine ends
SendDone(c) ==
    /\ pc[c] = "send"
    /\ consumer = Receiving
    /\ done' = Append(done, Info(c))
    /\ pc' = [pc EXCEPT ![c] = "exited"]
    /\ UNCHANGED <<config, consumer, retried, retries, ticker, tickC, quit,
                   stopReturned, aggregator, resp, err, callLog, fwd, sent, cycles,
                   probed>>

Next ==
    \E c \in registrants :
        \/ newHealthChecker(c)
        \/ startHealthCheck(c)
        \/ Tick(c)
        \/ stopHealthCheck(c)
        \/ SelectQuit(c)
        \/ SelectTick(c)
        \/ HeartbeatError(c)
        \/ HeartbeatOK(c)
        \/ AddDataPoint(c)
        \/ HeartBeatFailed(c)
        \/ HeartBeatSucceeded(c)
        \/ StopTicker(c)
        \/ SendDone(c)

Spec == Init /\ [][Next]_vars

\* the goroutine that receives from done returns and receives no more
ConsumerGone ==
    /\ consumer = Receiving
    /\ consumer' = Gone
    /\ UNCHANGED <<config, retried, pc, retries, ticker, tickC, quit, stopReturned,
                   done, aggregator, resp, err, callLog, fwd, sent, cycles, probed>>

\* the goroutine that receives from done calls stopHealthCheck itself
ConsumerStops(c) ==
    /\ consumer = Receiving
    /\ pc[c] # "none"
    /\ quit[c] + stopReturned[c] < limits.stops
    /\ consumer' = Stopping(c)
    /\ quit' = [quit EXCEPT ![c] = @ + 1]
    /\ UNCHANGED <<config, retried, pc, retries, ticker, tickC, stopReturned, done,
                   aggregator, resp, err, callLog, fwd, sent, cycles, probed>>

NextRegistry ==
    \/ Next
    \/ ConsumerGone
    \/ \E c \in registrants : ConsumerStops(c)

\* the scheduler runs a goroutine that can step: the deferred function of a
\* checker that left its loop is not held back for ever while it can proceed
Fairness ==
    \A c \in Registrants : WF_vars(StopTicker(c)) /\ WF_vars(SendDone(c))

\* the checker with the receiver of done as the spec describes it
SpecRegistry == Init /\ [][NextRegistry]_vars /\ Fairness

\* the checker with a receiver that never stops receiving
SpecReceiving == Init /\ [][Next]_vars /\ Fairness

\* two checkers on one done channel and one aggregator, each followed for
\* one probe cycle, with the budget of the documented scenarios
InitMulti ==
    /\ maxHeartBeatRetries \in {b \in Budgets : b > 1}
    /\ registrants = Registrants
    /\ limits = [cycles |-> 1, stats |-> 1, stops |-> 1]
    /\ InitState

SpecMulti == InitMulti /\ [][Next]_vars

\* ---------------------------------------------------------------- claims
\* termination reports sent on done for checker c
Reports(c) == Cardinality({i \in 1..Len(done) : done[i] = c})

\* the outcomes of the probe cycles of c that have finished
Completed(c) == SelectSeq(cycles[c], LAMBDA o : o # "pending")

\* how many of the latest finished cycles of c failed in a row
ConsecFails(c) ==
    LET s == Completed(c) IN
    Cardinality({n \in 1..Len(s) : \A i \in (Len(s) - n + 1)..Len(s) : s[i] = "fail"})

Occurrences(s, x) == Cardinality({i \in 1..Len(s) : s[i] = x})

\* C1: a checker never sends two termination reports, sends none while it is
\* still in its loop, and has sent exactly one (its own RegistrantInfo) once
\* its goroutine is over, whether it left the loop by quit or by a failed probe.
C1_ExactlyOneReport ==
    \A c \in Registrants :
        /\ Reports(c) <= 1
        /\ pc[c] = "exited" => Reports(c) = 1
        /\ pc[c] # "exited" => Reports(c) = 0

C1_Witness ==
    /\ pc[SvcA] = "exited"
    /\ Reports(SvcA) = 1
    /\ cycles[SvcA] = <<"ok", "fail">>
    /\ stopReturned[SvcA] = 0

\* C2: with no stop() call, a checker is still in its loop while fewer than
\* maxHeartBeatRetries probe cycles have failed in a row.
C2_NoEarlyTermination ==
    \A c \in Registrants :
        (quit[c] = 0 /\ stopReturned[c] = 0 /\ ConsecFails(c) < maxHeartBeatRetries)
            => pc[c] \notin Leaving

\* C3: once maxHeartBeatRetries probe cycles in a row have failed, the checker
\* has left its loop; from then on it starts no probe cycle and takes no tick
\* from its ticker.
C3_ExhaustionLeavesLoop ==
    [][\A c \in Registrants :
          /\ ConsecFails(c)' >= maxHeartBeatRetries => pc'[c] \in Leaving
          /\ ConsecFails(c) >= maxHeartBeatRetries =>
                /\ cycles'[c] = cycles[c]
                /\ ~(tickC[c] /\ ~tickC'[c])]_vars

C3_Witness ==
    /\ maxHeartBeatRetries = 1
    /\ cycles[SvcA] = <<"fail">>
    /\ pc[SvcA] = "send"
    /\ tickC[SvcA]

\* C4: the step that handles a successful probe cycle leaves the retry counter
\* at maxHeartBeatRetries and the checker waiting in its select.
C4_SuccessResetsCounter ==
    [][\A c \in Registrants :
          (pc[c] = "ret_ok" /\ pc'[c] # "ret_ok")
              => (retries'[c] = maxHeartBeatRetries /\ pc'[c] = "select")]_vars

C4_Witness ==
    /\ cycles[SvcA] = <<"ok">>
    /\ pc[SvcA] = "select"
    /\ retries[SvcA] = maxHeartBeatRetries
    /\ maxHeartBeatRetries = 3

\* the data point of kind k (1..4) the spec expects for one Stats entry
ExpectedPoint(st, k) ==
    CASE k = 1 -> [MetricID |-> "MetricCPU", ServiceID |-> st.ServiceID,
                   TS |-> st.TS, Value |-> st.CPU]
      [] k = 2 -> [MetricID |-> "MetricMemory", ServiceID |-> st.ServiceID,
                   TS |-> st.TS, Value |-> st.Mem]
      [] k = 3 -> [MetricID |-> "MetricThreads", ServiceID |-> st.ServiceID,
                   TS |-> st.TS, Value |-> st.Threads]
      [] k = 4 -> [MetricID |-> "MetricNumGoroutine", ServiceID |-> st.ServiceID,
                   TS |-> st.TS, Value |-> st.NumGoroutines]

ExpectedPoints(stats) ==
    {ExpectedPoint(stats[i], k) : i \in 1..Len(stats), k \in 1..4}

\* the calls s are, as a multiset, one point of each kind for each entry
PointsMatch(s, stats) ==
    /\ Len(s) = 4 * Len(stats)
    /\ \A i \in 1..Len(s) : s[i] \in ExpectedPoints(stats)
    /\ \A dp \in ExpectedPoints(stats) :
          Occurrences(s, dp) =
              Cardinality({ik \in (1..Len(stats)) \X (1..4) :
                              ExpectedPoint(stats[ik[1]], ik[2]) = dp})

\* C5: when sendHeartBeat returns nil for a response with k Stats entries, it
\* has made exactly 4k AddDataPoint calls, one of each metric kind for each
\* entry, with the entry's ServiceID, TS and matching value, and the
\* aggregator holds every one of them.
C5_FourPointsPerEntry ==
    \A c \in Registrants :
        pc[c] = "ret_ok" =>
            /\ PointsMatch(sent[c], resp[c].Stats)
            /\ \A dp \in ExpectedPoints(resp[c].Stats) :
                  Occurrences(aggregator, dp) >= Occurrences(sent[c], dp)

C5_Witness ==
    /\ pc[SvcA] = "ret_ok"
    /\ resp[SvcA].Stats = <<StatsB, StatsA>>
    /\ Len(sent[SvcA]) = 8

\* C6: a checker whose stop signal was received before it handled any tick is
\* on its way out (or out, with its report sent) and its heartbeat client was
\* never called.
C6_StopBeforeFirstTick ==
    \A c \in Registrants :
        (stopReturned[c] > 0 /\ cycles[c] = <<>>)
            => /\ pc[c] \in Leaving
               /\ ~probed[c]
               /\ pc[c] = "exited" => Reports(c) = 1

C6_Witness ==
    /\ stopReturned[SvcA] = 1
    /\ cycles[SvcA] = <<>>
    /\ tickC[SvcA]
    /\ pc[SvcA] = "exited"
    /\ Reports(SvcA) = 1

\* C7: while a stop() call is pending on a checker, the checker starts no new
\* probe cycle (the stop signal wins over a ready tick).
C7_StopWinsOverTick ==
    [][\A c \in Registrants :
          quit[c] > 0 => Len(cycles'[c]) = Len(cycles[c])]_vars

\* C8: a probe that returns a non-nil response with zero Stats entries is a
\* success: sendHeartBeat returns nil without any AddDataPoint call, and the
\* loop then resets the counter to maxHeartBeatRetries and keeps waiting.
C8_EmptyStatsIsSuccess ==
    [][\A c \in Registrants :
          /\ (pc[c] = "run" /\ pc'[c] # "run" /\ ~resp'[c].nil
                 /\ resp'[c].Stats = <<>> /\ err'[c] \notin ClientErrors)
                => (pc'[c] = "ret_ok" /\ sent'[c] = <<>> /\ aggregator' = aggregator)
          /\ (pc[c] = "ret_ok" /\ resp[c].Stats = <<>> /\ pc'[c] # "ret_ok")
                => /\ retries'[c] = maxHeartBeatRetries
                   /\ pc'[c] = "select"
                   /\ sent'[c] = <<>>
                   /\ aggregator' = aggregator]_vars

C8_Witness ==
    /\ cycles[SvcA] = <<"ok">>
    /\ resp[SvcA] = Response(<<>>)
    /\ pc[SvcA] = "select"
    /\ retries[SvcA] = maxHeartBeatRetries
    /\ aggregator = <<>>

\* the documented scenario: cycles fail, succeed (one entry for svc-a), fail, fail
Scenario == <<"fail", "ok", "fail", "fail">>
ScenarioPoints ==
    << [MetricID |-> "MetricCPU", ServiceID |-> "svc-a", TS |-> 100, Value |-> 5],
       [MetricID |-> "MetricMemory", ServiceID |-> "svc-a", TS |-> 100, Value |-> 2],
       [MetricID |-> "MetricThreads", ServiceID |-> "svc-a", TS |-> 100, Value |-> 40],
       [MetricID |-> "MetricNumGoroutine", ServiceID |-> "svc-a", TS |-> 100,
        Value |-> 100] >>

OnScenario(c) ==
    /\ maxHeartBeatRetries = 3
    /\ quit[c] = 0 /\ stopReturned[c] = 0
    /\ Len(Completed(c)) <= 4
    /\ Completed(c) = SubSeq(Scenario, 1, Len(Completed(c)))
    /\ Len(Completed(c)) >= 2 => aggregator = ScenarioPoints

\* C9: with budget 3 and cycles that fail, succeed with the svc-a entry, fail,
\* fail, the checker stays in its loop until cycle 4 has failed, then leaves
\* it, and the aggregator holds exactly the four svc-a data points.
C9_ScenarioTerminatesAfterCycle4 ==
    \A c \in Registrants :
        OnScenario(c) =>
            /\ Len(Completed(c)) < 4 => pc[c] \notin Leaving
            /\ Len(Completed(c)) = 4 => (pc[c] \in Leaving /\ aggregator = ScenarioPoints)

\* a step in which the retrier of c makes a heartbeat client call
ClientCall(c) == pc[c] = "run" /\ (callLog'[c] # callLog[c] \/ pc'[c] # "run")

\* C10 as stated: one probe cycle makes at most 4 heartbeat client calls.
C10_AtMostFourCalls ==
    \A c \in Registrants : Len(callLog[c]) <= 4

\* C10, amended: one probe cycle makes at most 5 heartbeat client calls (the
\* first attempt and one retry per backoff delay); the retrier stops at the
\* first call that returns no error, retries after each of the first four
\* errors, and after a fifth error returns that fifth error.
C10_AtMostFiveCalls ==
    [][\A c \in Registrants :
          /\ Len(callLog'[c]) <= 5
          /\ (ClientCall(c) /\ err'[c] \notin ClientErrors) => pc'[c] # "run"
          /\ (ClientCall(c) /\ err'[c] \in ClientErrors) =>
                /\ callLog'[c] = Append(callLog[c], callLog'[c][Len(callLog'[c])])
                /\ Len(callLog'[c]) < 5 => pc'[c] = "run"
                /\ Len(callLog'[c]) = 5 =>
                      (pc'[c] = "ret_err" /\ err'[c] = callLog'[c][5])]_vars

C10_Witness ==
    /\ pc[SvcA] = "ret_err"
    /\ Len(callLog[SvcA]) = 5
    /\ callLog[SvcA][1] # callLog[SvcA][5]
    /\ err[SvcA] = callLog[SvcA][5]

\* the latest probe cycle of c, "none" before the first
LastCycle(c) == IF cycles[c] = <<>> THEN "none" ELSE cycles[c][Len(cycles[c])]

\* positions at which a probe cycle of the checker is in flight
InFlight == {"run", "forward", "ret_ok", "ret_err"}

\* the latest client call of c returned a nil response and no error
NilAnswer(c) ==
    /\ cycles[c] # <<>>
    /\ pc[c] # "run"
    /\ resp[c].nil
    /\ err[c] \notin ClientErrors

\* C11: a probe whose retrier run succeeds with a nil response is a failed
\* cycle: sendHeartBeat returns its own error without any AddDataPoint call,
\* and the loop treats it as it treats a run of exhausted retries: the counter
\* is decremented once and the loop is left.
C11_NilResponseFails ==
    \A c \in Registrants :
        /\ NilAnswer(c) =>
              /\ err[c] = NilResponseError
              /\ sent[c] = <<>>
              /\ LastCycle(c) = "pending" => pc[c] = "ret_err"
              /\ LastCycle(c) # "pending" => LastCycle(c) = "fail"
        /\ LastCycle(c) = "fail" =>
              /\ err[c] \in ClientErrors \cup {NilResponseError}
              /\ retries[c] = maxHeartBeatRetries - 1
              /\ pc[c] \in Leaving

C11_Witness ==
    /\ NilAnswer(SvcA)
    /\ cycles[SvcA] = <<"fail">>
    /\ retries[SvcA] = 2
    /\ pc[SvcA] = "exited"
    /\ aggregator = <<>>

\* C12: an error of one client call is absorbed by the retrier: after each of
\* the first four errors of a cycle the retrier calls again and the budget is
\* untouched, and when a later call of the same cycle succeeds the cycle is a
\* success: the stats are forwarded and the counter is set to the full budget.
C12_TransientErrorAbsorbed ==
    [][\A c \in Registrants :
          /\ (pc[c] = "run" /\ Len(callLog'[c]) > Len(callLog[c])
                 /\ Len(callLog'[c]) <= BackoffLen)
                => (pc'[c] = "run" /\ retries'[c] = retries[c])
          /\ (retried'[c] /\ pc'[c] \in {"forward", "ret_ok"})
                => /\ err'[c] = NoError
                   /\ ~resp'[c].nil
                   /\ retries'[c] = maxHeartBeatRetries
                   /\ pc'[c] = "ret_ok" => PointsMatch(sent'[c], resp'[c].Stats)
          /\ (retried[c] /\ pc[c] = "ret_ok" /\ pc'[c] # "ret_ok")
                => /\ LastCycle(c)' = "ok"
                   /\ retries'[c] = maxHeartBeatRetries
                   /\ pc'[c] = "select"]_vars

C12_Witness ==
    /\ retried[SvcA]
    /\ pc[SvcA] = "ret_ok"
    /\ resp[SvcA].Stats = <<StatsA>>
    /\ Len(sent[SvcA]) = 4
    /\ retries[SvcA] = 3

\* no probe cycle of c has succeeded or reached the forwarding of stats
NoSuccess(c) ==
    /\ \A i \in 1..Len(cycles[c]) : cycles[c][i] # "ok"
    /\ pc[c] \notin {"forward", "ret_ok"}

\* C13: a cycle that fails has made no AddDataPoint call, so the aggregator
\* holds nothing while no cycle has succeeded, and with one checker whose only
\* successful cycle is its latest it holds exactly that cycle's data points.
C13_FailedCycleAddsNothing ==
    /\ \A c \in Registrants :
          /\ (pc[c] = "ret_err" \/ LastCycle(c) = "fail") => sent[c] = <<>>
          /\ (registrants = {c} /\ Occurrences(cycles[c], "ok") = 1
                 /\ LastCycle(c) = "ok") => aggregator = sent[c]
    /\ (\A c \in Registrants : NoSuccess(c)) => aggregator = <<>>

C13_Witness ==
    /\ cycles[SvcA] = <<"ok", "fail">>
    /\ Len(aggregator) = 4
    /\ sent[SvcA] = <<>>
    /\ pc[SvcA] = "exited"

\* C14: a checker has at most one probe cycle in flight, and only while it is
\* inside sendHeartBeat or handling its result; a new cycle and the receipt of
\* a stop signal begin only from the select, with no cycle pending; a stop()
\* call made while a cycle is in flight leaves the cycle as it is.
C14_CyclesSequential ==
    [][\A c \in Registrants :
          /\ Occurrences(cycles'[c], "pending") <= 1
          /\ ("pending" = LastCycle(c)') <=> (pc'[c] \in InFlight)
          /\ Occurrences(cycles'[c], "pending") = 1 => LastCycle(c)' = "pending"
          /\ (Len(cycles'[c]) > Len(cycles[c]) \/ stopReturned'[c] # stopReturned[c])
                => (pc[c] = "select" /\ LastCycle(c) # "pending")
          /\ (quit'[c] # quit[c] /\ pc[c] \in InFlight)
                => /\ pc'[c] = pc[c]
                   /\ cycles'[c] = cycles[c]
                   /\ callLog'[c] = callLog[c]
                   /\ fwd'[c] = fwd[c]
                   /\ aggregator' = aggregator]_vars

C14_Witness ==
    /\ pc[SvcA] = "forward"
    /\ fwd[SvcA] = 5
    /\ quit[SvcA] = 1
    /\ cycles[SvcA] = <<"ok", "pending">>

\* C15: on both ways out of the loop the ticker is stopped before the checker
\* blocks on the report, and a checker that has sent its report has ended with
\* no probe cycle left pending; while in the loop the ticker runs.
C15_TickerStoppedBeforeReport ==
    \A c \in Registrants :
        /\ pc[c] \in {"send", "exited"} => ticker[c] = "stopped"
        /\ pc[c] \in InLoop => ticker[c] = "running"
        /\ Reports(c) >= 1 =>
              /\ pc[c] = "exited"
              /\ ticker[c] = "stopped"
              /\ LastCycle(c) # "pending"

C15_Witness ==
    /\ pc[SvcA] = "exited"
    /\ ticker[SvcA] = "stopped"
    /\ done = <<SvcA>>
    /\ stopReturned[SvcA] = 1
    /\ cycles[SvcA] = <<"ok">>

\* C16: no probe is made at creation: a probe cycle starts only by taking a
\* tick from the ticker channel in the select, the client is called only
\* inside such a cycle, and ticks arrive only once the ticker runs.
C16_ProbeOnlyOnTick ==
    [][\A c \in Registrants :
          /\ Len(cycles'[c]) > Len(cycles[c])
                => (pc[c] = "select" /\ tickC[c] /\ ~tickC'[c])
          /\ pc'[c] \in InFlight => LastCycle(c)' = "pending"
          /\ (probed'[c] /\ ~probed[c]) => (pc[c] = "run" /\ LastCycle(c) = "pending")
          /\ pc'[c] \in {"none", "start"}
                => (~probed'[c] /\ cycles'[c] = <<>> /\ ~tickC'[c])]_vars

C16_Witness ==
    /\ pc[SvcA] = "run"
    /\ cycles[SvcA] = <<"pending">>
    /\ callLog[SvcA] = <<>>
    /\ ~probed[SvcA]
    /\ ~tickC[SvcA]

\* C17: a checker that has left its loop always gets its report out and ends,
\* whatever the receiver of done does.
C17_TerminationCompletes ==
    \A c \in Registrants : (pc[c] = "defer") ~> (pc[c] = "exited")

\* C18: at most one stopHealthCheck() call per checker returns, and only by
\* being received in the select; once the loop is left no blocked caller is
\* ever released.
C18_OneStopReturns ==
    [][\A c \in Registrants :
          /\ stopReturned'[c] <= 1
          /\ stopReturned'[c] # stopReturned[c]
                => (pc[c] = "select" /\ quit'[c] = quit[c] - 1)
          /\ quit'[c] < quit[c] => stopReturned'[c] = stopReturned[c] + 1
          /\ pc[c] \in Leaving
                => (quit'[c] >= quit[c] /\ stopReturned'[c] = stopReturned[c])]_vars

C18_Witness ==
    /\ pc[SvcA] = "exited"
    /\ cycles[SvcA] = <<"fail">>
    /\ quit[SvcA] = 2
    /\ stopReturned[SvcA] = 0

\* everything a checker owns
Local(c) ==
    <<pc[c], retries[c], ticker[c], tickC[c], quit[c], stopReturned[c], resp[c],
      err[c], callLog[c], fwd[c], sent[c], cycles[c], probed[c], retried[c]>>

\* C19: checkers sharing done and the aggregator do not interfere: a step of
\* one checker (a stop, a probe failure, anything) leaves the position, the
\* counter and all other state of every other checker alone, and done holds
\* one report per ended checker, each the RegistrantInfo of its sender.
C19_CheckersIndependent ==
    [][/\ \A c \in Registrants : \A d \in Registrants \ {c} :
             Local(c)' # Local(c) => Local(d)' = Local(d)
       /\ \A c \in Registrants :
             Reports(c)' = IF pc'[c] = "exited" THEN 1 ELSE 0
       /\ Len(done') = Cardinality({c \in Registrants : pc'[c] = "exited"})]_vars

C19_Witness ==
    /\ done = <<SvcB, SvcA>>
    /\ pc[SvcA] = "exited" /\ pc[SvcB] = "exited"
    /\ stopReturned[SvcA] = 1 /\ cycles[SvcA] = <<"ok">>
    /\ stopReturned[SvcB] = 0 /\ cycles[SvcB] = <<"fail">>
    /\ retries[SvcA] = 3 /\ retries[SvcB] = 2

\* C20: the counter stays within 0..maxHeartBeatRetries, equals the full
\* budget whenever the checker is in its loop (so at every select), and is
\* below it only once the loop has been left.
C20_CounterFullInLoop ==
    \A c \in Registrants :
        /\ retries[c] \in 0..maxHeartBeatRetries
        /\ pc[c] \in InLoop => retries[c] = maxHeartBeatRetries
        /\ (pc[c] \notin {"none", "start"} /\ retries[c] < maxHeartBeatRetries)
              => pc[c] \in Leaving

C20_Witness ==
    /\ pc[SvcA] = "defer"
    /\ retries[SvcA] = 2
    /\ maxHeartBeatRetries = 3
    /\ cycles[SvcA] = <<"ok", "fail">>
====
